---- MODULE Spec2Model ----
(***************************************************************************)
(* CFRBenchmark (src/cfr_benchmark.py): the checkpointed runner            *)
(* run_algorithm, the batch orchestrator compare_algorithms, the result    *)
(* store self.results and the summary printer print_summary.               *)
(*                                                                         *)
(* The solver (pokercfr) is not part of the sources; it is modelled from   *)
(* the adapter contract: run(n) executes n more iterations on the same     *)
(* instance, profile reflects all iterations executed so far, and          *)
(* best_response() yields one expected value per player.                   *)
(***************************************************************************)
EXTENDS Integers, Sequences, FiniteSets, TLC

(* ---------------------------- bounds ----------------------------------- *)
MaxIterations == 3
MaxInterval == 2
MaxBatch == 2

Names == {"x", "y"}
TotalIterations == 1..MaxIterations
CheckpointIntervals == 1..MaxInterval

\* config tuples: (class, name), (class, name, kwargs) and malformed arities
Configs == {<<"CFR", "x">>, <<"RSCFR", "y", "k1">>, <<"RSCFR", "x", "k1", "extra">>}

\* (class, kwargs) of a direct run_algorithm call; kwargs defaults to None
SolverArgs == {<<"CFR", "None">>, <<"RSCFR", "k1">>}

RECURSIVE SeqsUpTo(_, _)
SeqsUpTo(S, n) ==
  IF n = 0 THEN {<<>>}
  ELSE LET shorter == SeqsUpTo(S, n - 1)
       IN  shorter \cup {Append(s, e) : s \in {t \in shorter : Len(t) = n - 1}, e \in S}

Batches == SeqsUpTo(Configs, MaxBatch)

(* ---------------------------- state ------------------------------------ *)
VARIABLES
  results,              \* self.results, an insertion-ordered dict
  pc,                   \* position of the single thread of control
  call,                 \* the public method in progress, or last called
  raised,               \* exception that ended the last call, or "none"
  summary,              \* rows printed by the last print_summary
  algorithm_configs,    \* compare_algorithms argument
  idx,                  \* position of the for loop of compare_algorithms
  total_iterations,
  checkpoint_interval,
  algorithm_class,
  algorithm_name,
  algorithm_kwargs,
  cfr,                  \* the solver instance of the run in progress
  num_checkpoints,
  checkpoint,           \* loop variable of run_algorithm, 0-based
  iterations_list,
  exploitability_list,
  \* history variables
  constructed,          \* solver constructions since the call started
  run_args,             \* arguments of cfr.run since the run started
  profiles,             \* profile of the instance after each cfr.run
  started,              \* configs handed to run_algorithm by this call
  written,              \* names written to self.results by this call
  active,               \* solver instances constructed and not yet finished
  keys0                 \* key order of self.results when the call started

locals ==
  <<total_iterations, checkpoint_interval, algorithm_class, algorithm_name,
    algorithm_kwargs, cfr, num_checkpoints, checkpoint, iterations_list,
    exploitability_list>>

history == <<constructed, run_args, profiles, started, written, active, keys0>>

vars == <<results, pc, call, raised, summary, algorithm_configs, idx, locals, history>>

(* ------------------------ result store --------------------------------- *)
\* self.results is a Python dict: iteration follows first insertion of a key
Keys(d) == {d[i].name : i \in 1..Len(d)}

\* list(d.keys()): the iteration order of the dict
KeyOrder(d) == [i \in 1..Len(d) |-> d[i].name]

HasKey(d, k) == \E i \in 1..Len(d) : d[i].name = k

KeyIndex(d, k) == CHOOSE i \in 1..Len(d) : d[i].name = k

Lookup(d, k) == d[KeyIndex(d, k)].data

\* variant: every assignment appends an entry, as list.append would
DictSetAppend(d, k, v) == Append(d, [name |-> k, data |-> v])

\* variant: a new key goes first
DictSetPrepend(d, k, v) ==
  IF HasKey(d, k)
    THEN [d EXCEPT ![KeyIndex(d, k)] = [name |-> k, data |-> v]]
    ELSE <<[name |-> k, data |-> v]>> \o d

\* d[k] = v: a key already present keeps its position, a new key goes last
DictSet(d, k, v) ==
  IF HasKey(d, k)
    THEN [d EXCEPT ![KeyIndex(d, k)] = [name |-> k, data |-> v]]
    ELSE Append(d, [name |-> k, data |-> v])

\* lst[i] with Python's negative indices; <<FALSE, _>> stands for IndexError
PyIndex(lst, i) ==
  LET j == IF i < 0 THEN Len(lst) + i + 1 ELSE i + 1
  IN  IF j \in 1..Len(lst) THEN <<TRUE, lst[j]>> ELSE <<FALSE, 0>>

(* ------------------------ solver contract ------------------------------ *)
\* a solver samples: which sample path an instance follows is fixed by the
\* random state it is constructed with
Seeds == {0, 1}

\* per-player best-response values of the profile after n iterations
ProfileEV(seed, n) == <<(seed + n) % 2, 1>>

\* the strategy profile reflecting n executed iterations
Profile(seed, n) == [iters |-> n, ev |-> ProfileEV(seed, n)]

NoSolver ==
  [cls |-> "none", kwargs |-> "none", seed |-> 0, iters |-> 0, profile |-> Profile(0, 0)]

\* algorithm_class(self.game_rules, **algorithm_kwargs)
NewSolver(cls, kwargs, seed) ==
  [cls |-> cls, kwargs |-> kwargs, seed |-> seed, iters |-> 0, profile |-> Profile(seed, 0)]

\* cfr.run(n): n more iterations on the same instance; the profile it leaves
\* reflects every iteration executed so far
SolverRun(solver, n) ==
  [solver EXCEPT !.iters = @ + n, !.profile = Profile(solver.seed, solver.iters + n)]

\* profile.best_response(): (best-response strategy, per-player values)
BestResponse(profile) == <<"br", profile.ev>>

(* ------------------------ run_algorithm -------------------------------- *)
RECURSIVE SumSeq(_)
SumSeq(s) == IF s = <<>> THEN 0 ELSE Head(s) + SumSeq(Tail(s))

\* variant: the first player's value alone
ExploitabilityFirstPlayer(result) == result[2][1]

\* sum(result[1])
Exploitability(result) == SumSeq(result[2])

\* variant: a partial final block is counted too
NumCheckpointsCeil(total, interval) == (total + interval - 1) \div interval

\* total_iterations // checkpoint_interval
NumCheckpoints(total, interval) == total \div interval

\* variant: the count before the block, as the loop of tests/test_rscfr.py prints
CurrentIterZeroBased(c, interval) == c * interval

\* (checkpoint + 1) * checkpoint_interval
CurrentIter(c, interval) == (c + 1) * interval

\* if algorithm_kwargs is None: algorithm_kwargs = {}
KwargsOrEmpty(kwargs) == IF kwargs = "None" THEN "{}" ELSE kwargs

\* the value assigned to self.results[algorithm_name]
RunRecord(its, expl, solver) ==
  [iterations |-> its, exploitability |-> expl, final_strategy |-> solver.profile]

ResetLocals ==
  /\ total_iterations' = 0
  /\ checkpoint_interval' = 0
  /\ algorithm_class' = "none"
  /\ algorithm_name' = "none"
  /\ algorithm_kwargs' = "none"
  /\ cfr' = NoSolver
  /\ num_checkpoints' = 0
  /\ checkpoint' = 0
  /\ iterations_list' = <<>>
  /\ exploitability_list' = <<>>

\* variant: a failing run leaves the checkpoints it has in the store
RaiseSalvage(e) ==
  /\ pc' = "raised"
  /\ raised' = e
  /\ active' = 0
  /\ results' = IF e = "SolverError"
                  THEN DictSet(results, algorithm_name,
                               RunRecord(iterations_list, exploitability_list, cfr))
                  ELSE results
  /\ UNCHANGED <<call, summary, algorithm_configs, idx, locals, constructed,
                 run_args, profiles, started, written, keys0>>

\* an exception leaves the frames of run_algorithm and compare_algorithms:
\* neither method has a try block, so control returns to the caller
Raise(e) ==
  /\ pc' = "raised"
  /\ raised' = e
  /\ active' = 0
  /\ UNCHANGED <<results, call, summary, algorithm_configs, idx, locals,
                 constructed, run_args, profiles, started, written, keys0>>

ResetHistory ==
  /\ constructed' = 0
  /\ run_args' = <<>>
  /\ profiles' = <<>>
  /\ started' = <<>>
  /\ written' = <<>>
  /\ active' = 0
  /\ keys0' = <<>>

\* the call is over (returned or raised): its frames and output are gone,
\* the caller holds the benchmark object and may call again
Unwind ==
  /\ pc \in {"returned", "raised"}
  /\ pc' = "idle"
  /\ call' = "none"
  /\ raised' = "none"
  /\ summary' = <<>>
  /\ algorithm_configs' = <<>>
  /\ idx' = 0
  /\ ResetLocals
  /\ ResetHistory
  /\ UNCHANGED results

Init ==
  /\ results = <<>>
  /\ pc = "idle"
  /\ call = "none"
  /\ raised = "none"
  /\ summary = <<>>
  /\ algorithm_configs = <<>>
  /\ idx = 0
  /\ total_iterations = 0
  /\ checkpoint_interval = 0
  /\ algorithm_class = "none"
  /\ algorithm_name = "none"
  /\ algorithm_kwargs = "none"
  /\ cfr = NoSolver
  /\ num_checkpoints = 0
  /\ checkpoint = 0
  /\ iterations_list = <<>>
  /\ exploitability_list = <<>>
  /\ constructed = 0
  /\ run_args = <<>>
  /\ profiles = <<>>
  /\ started = <<>>
  /\ written = <<>>
  /\ active = 0
  /\ keys0 = <<>>

\* the caller invokes run_algorithm(cls, name, T, C, kwargs)
CallRunAlgorithm ==
  /\ pc = "idle"
  /\ \E args \in SolverArgs, name \in Names, T \in TotalIterations,
        C \in CheckpointIntervals :
       /\ algorithm_class' = args[1]
       /\ algorithm_name' = name
       /\ total_iterations' = T
       /\ checkpoint_interval' = C
       /\ algorithm_kwargs' = args[2]
  /\ pc' = "run_algorithm"
  /\ call' = "run_algorithm"
  /\ keys0' = KeyOrder(results)
  /\ UNCHANGED <<results, raised, summary, algorithm_configs, idx, cfr,
                 num_checkpoints, checkpoint, iterations_list, exploitability_list,
                 constructed, run_args, profiles, started, written, active>>

\* lines 32-43: construct the solver, empty lists, number of blocks
RunAlgorithmEntry ==
  /\ pc = "run_algorithm"
  /\ algorithm_kwargs' = KwargsOrEmpty(algorithm_kwargs)
  /\ \E seed \in Seeds :
       cfr' = NewSolver(algorithm_class, KwargsOrEmpty(algorithm_kwargs), seed)
  /\ iterations_list' = <<>>
  /\ exploitability_list' = <<>>
  /\ num_checkpoints' = NumCheckpoints(total_iterations, checkpoint_interval)
  /\ checkpoint' = 0
  /\ constructed' = constructed + 1
  /\ active' = active + 1
  /\ run_args' = <<>>
  /\ profiles' = <<>>
  /\ pc' = "loop"
  /\ UNCHANGED <<results, call, raised, summary, algorithm_configs, idx,
                 total_iterations, checkpoint_interval, algorithm_class,
                 algorithm_name, started, written, keys0>>

\* lines 45-49: the next block, cfr.run(checkpoint_interval)
Advance ==
  /\ pc = "loop"
  /\ checkpoint < num_checkpoints
  /\ \/ /\ cfr' = SolverRun(cfr, checkpoint_interval)
        /\ profiles' = Append(profiles, cfr'.profile)
        /\ run_args' = Append(run_args, checkpoint_interval)
        /\ pc' = "measure"
        /\ UNCHANGED <<results, call, raised, summary, algorithm_configs, idx,
                       total_iterations, checkpoint_interval, algorithm_class,
                       algorithm_name, algorithm_kwargs, num_checkpoints,
                       checkpoint, iterations_list, exploitability_list,
                       constructed, started, written, active, keys0>>
     \/ Raise("SolverError")

\* lines 52-60: best response on the current profile, then both appends
Measure ==
  /\ pc = "measure"
  /\ \/ /\ LET result == BestResponse(cfr.profile)
               exploitability == Exploitability(result)
           IN  /\ iterations_list' =
                    Append(iterations_list, CurrentIter(checkpoint, checkpoint_interval))
               /\ exploitability_list' = Append(exploitability_list, exploitability)
        /\ checkpoint' = checkpoint + 1
        /\ pc' = "loop"
        /\ UNCHANGED <<results, call, raised, summary, algorithm_configs, idx,
                       total_iterations, checkpoint_interval, algorithm_class,
                       algorithm_name, algorithm_kwargs, cfr, num_checkpoints,
                       history>>
     \/ Raise("SolverError")

\* lines 62-68: the loop is exhausted; write the entry and return
Store ==
  /\ pc = "loop"
  /\ checkpoint >= num_checkpoints
  /\ results' = DictSet(results, algorithm_name,
                        RunRecord(iterations_list, exploitability_list, cfr))
  /\ written' = Append(written, algorithm_name)
  /\ active' = active - 1
  /\ IF call = "compare_algorithms"
       THEN /\ pc' = "for_config"
            /\ idx' = idx + 1
       ELSE /\ pc' = "returned"
            /\ idx' = idx
  /\ UNCHANGED <<call, raised, summary, algorithm_configs, locals, constructed,
                 run_args, profiles, started, keys0>>

(* ------------------------ compare_algorithms --------------------------- *)
\* variant: the list is walked from its end
ConfigAtReversed(configs, i) == configs[Len(configs) + 1 - i]

\* variant: any tuple of two or more elements is accepted
ValidArityAtLeastTwo(config) == Len(config) >= 2

\* for config in algorithm_configs: the idx-th element, in list order
ConfigAt(configs, i) == configs[i]

\* len(config) == 2 or len(config) == 3
ValidArity(config) == Len(config) = 2 \/ Len(config) = 3

\* the caller invokes compare_algorithms(configs, T, C)
CallCompareAlgorithms ==
  /\ pc = "idle"
  /\ \E configs \in Batches, T \in TotalIterations, C \in CheckpointIntervals :
       /\ algorithm_configs' = configs
       /\ total_iterations' = T
       /\ checkpoint_interval' = C
  /\ idx' = 1
  /\ pc' = "for_config"
  /\ call' = "compare_algorithms"
  /\ keys0' = KeyOrder(results)
  /\ UNCHANGED <<results, raised, summary, algorithm_class, algorithm_name,
                 algorithm_kwargs, cfr, num_checkpoints, checkpoint, iterations_list,
                 exploitability_list, constructed, run_args, profiles, started,
                 written, active>>

\* lines 85-100: unpack the next config and call run_algorithm, or finish
ForConfig ==
  /\ pc = "for_config"
  /\ \/ /\ idx > Len(algorithm_configs)
        /\ pc' = "returned"
        /\ UNCHANGED <<results, call, raised, summary, algorithm_configs, idx,
                       locals, history>>
     \/ /\ idx <= Len(algorithm_configs)
        /\ ValidArity(ConfigAt(algorithm_configs, idx))
        /\ LET config == ConfigAt(algorithm_configs, idx)
           IN  /\ algorithm_class' = config[1]
               /\ algorithm_name' = config[2]
               /\ algorithm_kwargs' = IF Len(config) = 2 THEN "{}" ELSE config[3]
               /\ started' = Append(started, config)
        /\ pc' = "run_algorithm"
        /\ UNCHANGED <<results, call, raised, summary, algorithm_configs, idx,
                       total_iterations, checkpoint_interval, cfr, num_checkpoints,
                       checkpoint, iterations_list, exploitability_list,
                       constructed, run_args, profiles, written, active, keys0>>
     \/ /\ idx <= Len(algorithm_configs)
        /\ ~ValidArity(ConfigAt(algorithm_configs, idx))
        /\ Raise("ValueError")

(* ------------------------ print_summary -------------------------------- *)
\* lines 158-161: one row per entry, in dict order; data[...][-1] raises
\* IndexError on an empty list and ends the loop
RECURSIVE PrintRows(_, _, _)
PrintRows(d, i, out) ==
  IF i > Len(d) THEN [rows |-> out, raised |-> "none"]
  ELSE LET final_iter == PyIndex(d[i].data.iterations, -1)
           final_exploit == PyIndex(d[i].data.exploitability, -1)
       IN  IF ~final_iter[1] \/ ~final_exploit[1]
             THEN [rows |-> out, raised |-> "IndexError"]
             ELSE PrintRows(d, i + 1,
                            Append(out, <<d[i].name, final_iter[2], final_exploit[2]>>))

PrintSummary ==
  /\ pc = "idle"
  /\ LET printed == PrintRows(results, 1, <<>>)
     IN  /\ summary' = printed.rows
         /\ raised' = printed.raised
         /\ pc' = IF printed.raised = "none" THEN "returned" ELSE "raised"
  /\ call' = "print_summary"
  /\ keys0' = KeyOrder(results)
  /\ UNCHANGED <<results, algorithm_configs, idx, locals, constructed, run_args,
                 profiles, started, written, active>>

Next ==
  \/ CallRunAlgorithm
  \/ RunAlgorithmEntry
  \/ Advance
  \/ Measure
  \/ Store
  \/ CallCompareAlgorithms
  \/ ForConfig
  \/ PrintSummary
  \/ Unwind

Spec == Init /\ [][Next]_vars

(* ======================= properties ==================================== *)
\* a run_algorithm call of this call has written its entry and returned;
\* its locals are still those of that run
RunCompleted == pc \in {"returned", "for_config"} /\ written # <<>>

Range(f) == {f[i] : i \in DOMAIN f}

\* the names of the configs of a batch whose configs are all well-formed
BatchNames(configs) == [i \in 1..Len(configs) |-> configs[i][2]]

PairwiseDistinct(s) == \A i, j \in 1..Len(s) : i # j => s[i] # s[j]

\* C1: the iteration counts a completed run has recorded are C, 2C, ...,
\* floor(T/C)*C: floor(T/C) of them (none when C > T), the k-th is k*C, they
\* are strictly increasing, and the last is T only when C divides T.
C1_CheckpointSchedule ==
  RunCompleted =>
    LET T == total_iterations
        C == checkpoint_interval
        its == Lookup(results, algorithm_name).iterations
        n == Len(its)
    IN  /\ HasKey(results, algorithm_name)
        /\ its = iterations_list
        /\ n * C <= T /\ T < (n + 1) * C
        /\ \A k \in 1..n : its[k] = k * C
        /\ \A k \in 1..(n - 1) : its[k] < its[k + 1]
        /\ (C > T => its = <<>>)
        /\ (n > 0 => (its[n] = T <=> T % C = 0))

C1_Witness ==
  /\ RunCompleted
  /\ total_iterations = 3
  /\ checkpoint_interval = 2
  /\ Lookup(results, algorithm_name).iterations = <<2>>

\* C2: every entry of the result store has a non-empty checkpoint sequence,
\* and a completed run with C > T leaves no entry under its name.
C2_NoZeroCheckpointRun ==
  /\ \A i \in 1..Len(results) : results[i].data.iterations # <<>>
  /\ (RunCompleted /\ checkpoint_interval > total_iterations)
       => ~HasKey(results, algorithm_name)

\* C3: while a run is in progress the result store is not written before the
\* run's last block is done; a failure of cfr.run or best_response ends the
\* call with that failure and without any further construction or advance;
\* and once the call has failed the only step left returns control to the
\* caller with the result store as it was.
C3_SolverFailurePropagates ==
  [][/\ (pc \in {"run_algorithm", "loop", "measure"} /\ pc' \in {"loop", "measure", "raised"})
          => results' = results
     /\ (pc \in {"loop", "measure"} /\ pc' = "raised")
          => /\ raised' = "SolverError"
             /\ constructed' = constructed
             /\ run_args' = run_args
             /\ started' = started
             /\ written' = written
     /\ (pc = "raised") => (pc' = "idle" /\ results' = results)]_vars

C3_Witness ==
  /\ pc = "raised"
  /\ raised = "SolverError"
  /\ call = "compare_algorithms"
  /\ idx < Len(algorithm_configs)
  /\ iterations_list # <<>>
  /\ results # <<>>
  /\ ~HasKey(results, algorithm_name)

\* C4: a config whose length is neither 2 nor 3 ends compare_algorithms with
\* a ValueError before a solver is constructed or advanced for it; the
\* configs before it have their complete entries in the result store, and
\* the only step left returns control to the caller, so no later config runs.
C4_MalformedConfig ==
  [][/\ (/\ pc = "for_config"
         /\ idx <= Len(algorithm_configs)
         /\ Len(algorithm_configs[idx]) \notin {2, 3})
          => /\ pc' = "raised"
             /\ raised' = "ValueError"
             /\ results' = results
             /\ constructed' = idx - 1
             /\ started' = SubSeq(algorithm_configs, 1, idx - 1)
             /\ run_args' = run_args
             /\ cfr' = cfr
             /\ written' = BatchNames(SubSeq(algorithm_configs, 1, idx - 1))
             /\ \A j \in 1..(idx - 1) :
                  /\ HasKey(results', algorithm_configs[j][2])
                  /\ Len(Lookup(results', algorithm_configs[j][2]).iterations)
                       = total_iterations \div checkpoint_interval
     /\ (pc = "raised" /\ raised = "ValueError")
          => (pc' = "idle" /\ results' = results)
     /\ (pc' = "raised" /\ raised' = "ValueError")
          => (call' # "compare_algorithms"
                \/ Len(algorithm_configs[idx]) \notin {2, 3})]_vars

C4_Witness ==
  /\ pc = "raised"
  /\ raised = "ValueError"
  /\ idx = 2
  /\ Len(algorithm_configs[idx]) = 4
  /\ written = <<"x">>
  /\ HasKey(results, "x")

\* C5: when a run completes under a name that already has an entry, the
\* store afterwards has exactly one entry of that name, holding the run's
\* own iteration counts, metric values and final profile, and the entries of
\* all other names are as before.
C5_OverwriteSameName ==
  [][(/\ pc = "loop"
      /\ pc' \in {"for_config", "returned"}
      /\ HasKey(results, algorithm_name))
       => /\ Cardinality({i \in 1..Len(results') : results'[i].name = algorithm_name}) = 1
          /\ Lookup(results', algorithm_name) =
               [iterations |-> iterations_list,
                exploitability |-> exploitability_list,
                final_strategy |-> cfr.profile]
          /\ Keys(results') = Keys(results)
          /\ \A n \in Keys(results) \ {algorithm_name} :
               /\ Cardinality({i \in 1..Len(results') : results'[i].name = n}) = 1
               /\ Lookup(results', n) = Lookup(results, n)]_vars

C5_Witness ==
  /\ RunCompleted
  /\ algorithm_name \in Range(keys0)
  /\ Len(results) = 2
  /\ Len(iterations_list) = 3

\* C6 as stated: after compare_algorithms returns on a batch with pairwise
\* distinct names, whatever the store held before, the batch's names are in
\* the store's iteration order as in the input sequence.  (Stated for
\* sessions whose runs all have checkpoints, so that the zero-checkpoint
\* entries of C2 play no part.)
C6_InputOrderAnyPriorState ==
  (/\ pc = "returned"
   /\ call = "compare_algorithms"
   /\ PairwiseDistinct(BatchNames(algorithm_configs))
   /\ \A i \in 1..Len(results) : results[i].data.iterations # <<>>)
    => \A i, j \in 1..Len(algorithm_configs) :
         i < j => KeyIndex(results, algorithm_configs[i][2])
                    < KeyIndex(results, algorithm_configs[j][2])

\* the elements of s that are not in the set seen, in the order of s
RECURSIVE Without(_, _)
Without(s, seen) ==
  IF s = <<>> THEN <<>>
  ELSE IF Head(s) \in seen THEN Without(Tail(s), seen)
       ELSE <<Head(s)>> \o Without(Tail(s), seen)

\* C6 amended: after compare_algorithms returns on a batch with pairwise
\* distinct names, the store's iteration order is the order it had before
\* the call followed by the batch's names that had no entry before, in input
\* order; a name that already had an entry keeps its earlier position.
C6_InputOrderOfNewNames ==
  (/\ pc = "returned"
   /\ call = "compare_algorithms"
   /\ PairwiseDistinct(BatchNames(algorithm_configs)))
    => KeyOrder(results) =
         keys0 \o Without(BatchNames(algorithm_configs), Range(keys0))

C6_Witness ==
  /\ pc = "returned"
  /\ call = "compare_algorithms"
  /\ BatchNames(algorithm_configs) = <<"x", "y">>
  /\ keys0 = <<>>
  /\ KeyOrder(results) = <<"x", "y">>

\* C7: print_summary, from every state of the result store, prints one row
\* per entry in iteration order with the entry's name and the iteration
\* count and metric of its last checkpoint, and does not change the store.
C7_SummaryRows ==
  [][(pc = "idle" /\ call' = "print_summary")
       => /\ results' = results
          /\ raised' = "none"
          /\ Len(summary') = Len(results)
          /\ \A i \in 1..Len(results) :
               LET its == results[i].data.iterations
                   expl == results[i].data.exploitability
               IN  /\ its # <<>>
                   /\ expl # <<>>
                   /\ summary'[i] = <<results[i].name, its[Len(its)], expl[Len(expl)]>>]_vars

\* C8: in one run the solver is constructed once, cfr.run is called exactly
\* floor(T/C) times, each time with C, so the instance has executed
\* floor(T/C)*C iterations and T mod C iterations are never executed.
C8_BlocksAndConstruction ==
  /\ (call \in {"run_algorithm", "compare_algorithms"} /\ pc \in {"loop", "measure"})
       => /\ constructed = Len(written) + 1
          /\ \A k \in 1..Len(run_args) : run_args[k] = checkpoint_interval
          /\ cfr.iters = Len(run_args) * checkpoint_interval
  /\ RunCompleted
       => LET T == total_iterations
              C == checkpoint_interval
          IN  /\ constructed = Len(written)
              /\ Len(run_args) * C <= T /\ T < (Len(run_args) + 1) * C
              /\ \A k \in 1..Len(run_args) : run_args[k] = C
              /\ cfr.iters = Len(run_args) * C
              /\ T - cfr.iters = T % C

C8_Witness ==
  /\ RunCompleted
  /\ total_iterations = 3
  /\ checkpoint_interval = 2
  /\ run_args = <<2>>
  /\ cfr.iters = 2
  /\ constructed = 1

\* C9: the k-th metric of a run is the sum of the best-response values of
\* the profile the same instance has after exactly k*C iterations, no
\* measurement is taken before its block's advance, and the final profile
\* stored is the instance's profile after the last block.
C9_MeasureAfterAdvance ==
  /\ pc \in {"loop", "measure", "raised", "returned", "for_config"}
       => /\ Len(exploitability_list) <= Len(run_args)
          /\ Len(run_args) <= Len(exploitability_list) + 1
          /\ Len(profiles) = Len(run_args)
          /\ \A k \in 1..Len(profiles) :
               profiles[k] = Profile(cfr.seed, k * checkpoint_interval)
          /\ \A k \in 1..Len(exploitability_list) :
               exploitability_list[k] = SumSeq(profiles[k].ev)
  /\ RunCompleted
       => LET entry == Lookup(results, algorithm_name)
              n == Len(run_args)
          IN  /\ entry.exploitability = exploitability_list
              /\ Len(exploitability_list) = n
              /\ entry.final_strategy = Profile(cfr.seed, n * checkpoint_interval)

C9_Witness ==
  /\ RunCompleted
  /\ Len(exploitability_list) = 3
  /\ exploitability_list[1] # exploitability_list[2]
  /\ Lookup(results, algorithm_name).final_strategy.iters = 3

\* C10: compare_algorithms hands the configs to run_algorithm in input
\* order; when the solver of config i+1 is constructed, every earlier config
\* has all its blocks done and its entry written; at most one solver
\* instance is constructed and not yet finished.
C10_SequentialRuns ==
  /\ active \in {0, 1}
  /\ call = "compare_algorithms"
       => /\ Len(started) <= Len(algorithm_configs)
          /\ started = SubSeq(algorithm_configs, 1, Len(started))
          /\ written = BatchNames(SubSeq(started, 1, Len(written)))
          /\ pc = "run_algorithm"
               => (Len(started) = idx /\ Len(written) = idx - 1
                     /\ constructed = idx - 1 /\ active = 0)
          /\ pc \in {"loop", "measure"}
               => (Len(started) = idx /\ Len(written) = idx - 1
                     /\ constructed = idx /\ active = 1)
          /\ pc = "for_config"
               => (Len(started) = idx - 1 /\ Len(written) = idx - 1
                     /\ constructed = idx - 1 /\ active = 0)
          /\ \A j \in 1..Len(written) :
               /\ HasKey(results, written[j])
               /\ Len(Lookup(results, written[j]).iterations)
                    = total_iterations \div checkpoint_interval

C10_Witness ==
  /\ call = "compare_algorithms"
  /\ pc = "loop"
  /\ idx = 2
  /\ started = algorithm_configs
  /\ written = <<"x">>
  /\ active = 1
  /\ HasKey(results, "x")

====
